---- MODULE Spec2Model ----
(***************************************************************************)
(* The Profile state-transition log of knowthyself (core/models.py), the   *)
(* background job that writes it, and the lazily created Source of a       *)
(* profile (core/views.py, SourceUpdateView.get_object).                   *)
(*                                                                         *)
(* The database is the state: the Profile rows, the ProfileStateTransition *)
(* rows in insertion order, the Source rows, and the django-q queue of     *)
(* jobs in flight.  Every query is a step of its own: current_state is an  *)
(* exists() query and, when it found a row, a later latest() query;        *)
(* track_state_change then calls async_task; the write of a transition     *)
(* happens later still, when a worker runs the job;                        *)
(* has_active_subscription queries for the user of an instance that has    *)
(* not got it cached.                                                      *)
(* Workers, deletions and other callers may act between any two of these   *)
(* steps.                                                                  *)
(***************************************************************************)
EXTENDS Bags, FiniteSets, Integers, Sequences, TLC

(* Bounds of the model. *)
MaxCalls == 2
MaxTime == 1
NumRequests == 2
NumCallers == 2
NumReaders == 1

(* core.choices.ProfileStates: the three members the source names, and one *)
(* more standing for the other lifecycle states.                           *)
STRANGER == "STRANGER"
SUBSCRIBED == "SUBSCRIBED"
CANCELLED == "CANCELLED"
CHURNED == "CHURNED"
ProfileStates == {STRANGER, SUBSCRIBED, CANCELLED, CHURNED}

(* Two profiles, so that the rows of one can be told from the other's. *)
Profiles == {1, 2}
Requests == 1..NumRequests
Callers == 1..NumCallers
(* The callers that also read the two properties.  A read changes nothing  *)
(* that is stored, so reads in progress at once do not affect each other.  *)
Readers == 1..NumReaders
NULL == 0
MetadataValues == {"None", "meta"}

VARIABLES
    profile,            \* Profile rows: id -> [exists]
    user,               \* User rows, by the id of the user's profile: [exists]
    state_transitions,  \* ProfileStateTransition rows, in insertion order (id = index)
    queue,              \* bag of core.tasks.track_state_change jobs in flight
    now,                \* the clock that stamps created_at
    calls,              \* number of track_state_change calls made so far
    call,               \* calls on a Profile instance in progress: caller -> frame
    sources,            \* Source rows: set of [id, profile]
    next_source_id,     \* next primary key of Source
    request,            \* get_object calls in progress: request -> [pc, profile]
                        \* (profile: the Profile that request.user.profile gave)
    obs                 \* what the last property read or view call returned

vars == <<profile, user, state_transitions, queue, now, calls, call, sources,
          next_source_id, request, obs>>

NoObs == [op |-> "none", profile |-> NULL, state |-> "-", flag |-> FALSE,
          is_superuser |-> FALSE, source |-> 0, error |-> "-"]

(* The frame of a caller that is not inside a call. *)
Idle == [pc |-> "idle", op |-> "-", profile |-> NULL, to_state |-> "-",
         metadata |-> "-", is_superuser |-> FALSE, user_cached |-> FALSE,
         from_state |-> "-"]

(* The kwargs of one enqueued core.tasks.track_state_change job. *)
Jobs == [profile_id : Profiles, from_state : ProfileStates,
         to_state : ProfileStates, metadata : MetadataValues]

(* Mutant of TransitionsOf: the relation is not filtered by profile. *)
TransitionsOfAnyProfile(p) == DOMAIN state_transitions

(* ---------------------------------------------------------------------- *)
(* Profile.state_transitions: the reverse relation of the foreign key.    *)
(* ---------------------------------------------------------------------- *)
TransitionsOf(p) ==
    {i \in DOMAIN state_transitions : state_transitions[i].profile = p}

(* Mutant of Latest: the rows with the earliest created_at. *)
Earliest(p) ==
    {i \in TransitionsOf(p) :
        \A j \in TransitionsOf(p) :
            state_transitions[j].created_at >= state_transitions[i].created_at}

(* QuerySet.latest("created_at"): a row of the relation that no other row  *)
(* of it exceeds in created_at.  Rows sharing the latest timestamp are     *)
(* not ordered by the query, so any of them may be the one returned; on    *)
(* an empty relation the query raises DoesNotExist.                        *)
Latest(p) ==
    {i \in TransitionsOf(p) :
        \A j \in TransitionsOf(p) :
            state_transitions[j].created_at <= state_transitions[i].created_at}

(* Profile.current_state evaluated with both queries on one snapshot: the  *)
(* set of values it can return.  It is a single value unless several rows  *)
(* share the latest created_at.                                            *)
current_state(p) ==
    IF TransitionsOf(p) = {}
    THEN {STRANGER}
    ELSE {state_transitions[i].to_state : i \in Latest(p)}

(* Profile.has_active_subscription, given the value cs that its read of    *)
(* current_state returned and the is_superuser flag of the profile's user. *)
has_active_subscription(cs, is_superuser) ==
    cs \in {SUBSCRIBED, CANCELLED} \/ is_superuser

(* ---------------------------------------------------------------------- *)
(* Initial state: every profile exists and has its user, no transition     *)
(* has been recorded, no source has been created.  The denormalized field  *)
(* Profile.state, which nothing under core/models.py or core/views.py      *)
(* reads or writes, is not part of the state.                              *)
(* ---------------------------------------------------------------------- *)
Init ==
    /\ profile = [p \in Profiles |-> [exists |-> TRUE]]
    /\ user = [p \in Profiles |-> [exists |-> TRUE]]
    /\ state_transitions = <<>>
    /\ queue = EmptyBag
    /\ now = 0
    /\ calls = 0
    /\ call = [c \in Callers |-> Idle]
    /\ sources = {}
    /\ next_source_id = 1
    /\ request = [r \in Requests |-> [pc |-> "idle", profile |-> NULL]]
    /\ obs = NoObs

(* current_state has returned cs inside the call with frame k of caller c  *)
(* (the frame keeps it as from_state):                                     *)
(* a plain read of the property returns it; track_state_change goes on to  *)
(* call async_task with from_state = cs; has_active_subscription returns   *)
(* True when cs is SUBSCRIBED or CANCELLED and otherwise evaluates         *)
(* self.user.is_superuser, which is one more query when the instance has   *)
(* not got its user cached.                                                *)
CurrentStateReturns(c, k, cs) ==
    IF k.op = "track_state_change"
    THEN /\ call' = [call EXCEPT ![c] = [k EXCEPT !.pc = "async_task",
                                                  !.from_state = cs]]
         /\ obs' = NoObs
    ELSE IF k.op = "current_state"
    THEN /\ call' = [call EXCEPT ![c] = Idle]
         /\ obs' = [NoObs EXCEPT !.op = k.op, !.profile = k.profile,
                                 !.state = cs]
    ELSE IF cs \in {SUBSCRIBED, CANCELLED} \/ k.user_cached
    THEN /\ call' = [call EXCEPT ![c] = Idle]
         /\ obs' = [NoObs EXCEPT !.op = k.op, !.profile = k.profile,
                                 !.state = cs,
                                 !.is_superuser = k.is_superuser,
                                 !.flag = has_active_subscription(
                                              cs, k.is_superuser)]
    ELSE /\ call' = [call EXCEPT ![c] = [k EXCEPT !.pc = "user",
                                                  !.from_state = cs]]
         /\ obs' = NoObs

(* The first query of current_state, state_transitions.all().exists(), in  *)
(* the call with frame k: without rows the property returns STRANGER, with *)
(* rows it goes on to the latest() query.                                  *)
CurrentStateExists(c, k) ==
    IF TransitionsOf(k.profile) = {}
    THEN CurrentStateReturns(c, k, STRANGER)
    ELSE /\ call' = [call EXCEPT ![c] = [k EXCEPT !.pc = "latest"]]
         /\ obs' = NoObs

(* A read of Profile.current_state begins.  The instance may have been     *)
(* loaded before its row was deleted.                                      *)
ReadCurrentState(c, p) ==
    /\ call[c].pc = "idle"
    /\ CurrentStateExists(c, [Idle EXCEPT !.op = "current_state",
                                          !.profile = p])
    /\ UNCHANGED <<profile, user, state_transitions, queue, now, calls, sources,
                   next_source_id, request>>

(* A read of Profile.has_active_subscription begins: self.current_state is *)
(* evaluated first.  is_superuser is the flag of the user of the profile;  *)
(* user_cached tells whether the instance holds its user already (it was   *)
(* reached as request.user.profile) or has to query for it.                *)
ReadHasActiveSubscription(c, p, is_superuser, user_cached) ==
    /\ call[c].pc = "idle"
    /\ CurrentStateExists(c, [Idle EXCEPT !.op = "has_active_subscription",
                                          !.profile = p,
                                          !.is_superuser = is_superuser,
                                          !.user_cached = user_cached])
    /\ UNCHANGED <<profile, user, state_transitions, queue, now, calls, sources,
                   next_source_id, request>>

(* Profile.track_state_change(to_state, metadata) begins: the argument     *)
(* from_state=self.current_state is evaluated first.                       *)
TrackStateChange(c, p, to_state, metadata) ==
    /\ call[c].pc = "idle"
    /\ calls < MaxCalls
    /\ calls' = calls + 1
    /\ CurrentStateExists(c, [Idle EXCEPT !.op = "track_state_change",
                                          !.profile = p,
                                          !.to_state = to_state,
                                          !.metadata = metadata])
    /\ UNCHANGED <<profile, user, state_transitions, queue, now, sources,
                   next_source_id, request>>

(* The second query of current_state, state_transitions.latest(            *)
(* "created_at"): it raises DoesNotExist when the rows that exists() saw   *)
(* no longer reference the profile.                                        *)
CurrentStateLatest(c) ==
    /\ call[c].pc = "latest"
    /\ IF Latest(call[c].profile) = {}
       THEN /\ call' = [call EXCEPT ![c] = Idle]
            /\ obs' = [NoObs EXCEPT !.op = call[c].op,
                                    !.profile = call[c].profile,
                                    !.is_superuser = call[c].is_superuser,
                                    !.error =
                                      "ProfileStateTransition.DoesNotExist"]
       ELSE \E i \in Latest(call[c].profile) :
               CurrentStateReturns(c, call[c], state_transitions[i].to_state)
    /\ UNCHANGED <<profile, user, state_transitions, queue, now, calls, sources,
                   next_source_id, request>>

(* self.user in has_active_subscription, on an instance without a cached   *)
(* user: the query raises User.DoesNotExist when the User row is gone,     *)
(* and otherwise the property returns the user's is_superuser.             *)
HasActiveSubscriptionUser(c) ==
    /\ call[c].pc = "user"
    /\ call' = [call EXCEPT ![c] = Idle]
    /\ obs' = IF user[call[c].profile].exists
              THEN [NoObs EXCEPT !.op = call[c].op,
                                 !.profile = call[c].profile,
                                 !.state = call[c].from_state,
                                 !.is_superuser = call[c].is_superuser,
                                 !.flag = has_active_subscription(
                                              call[c].from_state,
                                              call[c].is_superuser)]
              ELSE [NoObs EXCEPT !.op = call[c].op,
                                 !.profile = call[c].profile,
                                 !.is_superuser = call[c].is_superuser,
                                 !.error = "User.DoesNotExist"]
    /\ UNCHANGED <<profile, user, state_transitions, queue, now, calls,
                   sources, next_source_id, request>>

(* Mutant of AsyncTask: to_state is passed as from_state. *)
AsyncTaskWrongFrom(c, broker_up) ==
    /\ call[c].pc = "async_task"
    /\ IF broker_up
       THEN /\ queue' = queue (+) SetToBag({[profile_id |-> call[c].profile,
                                            from_state |-> call[c].to_state,
                                            to_state |-> call[c].to_state,
                                            metadata |-> call[c].metadata]})
            /\ obs' = [NoObs EXCEPT !.op = "track_state_change",
                                    !.profile = call[c].profile]
       ELSE /\ UNCHANGED queue
            /\ obs' = [NoObs EXCEPT !.op = "track_state_change",
                                    !.profile = call[c].profile,
                                    !.error = "ConnectionError"]
    /\ call' = [call EXCEPT ![c] = Idle]
    /\ UNCHANGED <<profile, user, state_transitions, now, calls, sources,
                   next_source_id, request>>

(* The async_task call of track_state_change: it enqueues one job and the  *)
(* call returns None.  Nothing catches what async_task raises when the     *)
(* broker cannot be reached (broker_up false): the call raises it and no   *)
(* job is enqueued.                                                        *)
AsyncTask(c, broker_up) ==
    /\ call[c].pc = "async_task"
    /\ IF broker_up
       THEN /\ queue' = queue (+) SetToBag({[profile_id |-> call[c].profile,
                                            from_state |-> call[c].from_state,
                                            to_state |-> call[c].to_state,
                                            metadata |-> call[c].metadata]})
            /\ obs' = [NoObs EXCEPT !.op = "track_state_change",
                                    !.profile = call[c].profile]
       ELSE /\ UNCHANGED queue
            /\ obs' = [NoObs EXCEPT !.op = "track_state_change",
                                    !.profile = call[c].profile,
                                    !.error = "ConnectionError"]
    /\ call' = [call EXCEPT ![c] = Idle]
    /\ UNCHANGED <<profile, user, state_transitions, now, calls, sources,
                   next_source_id, request>>

(* A worker runs the job core.tasks.track_state_change: it inserts one     *)
(* ProfileStateTransition row for the profile, stamped with the clock.     *)
(* The row references the profile, so the job of a profile that has been   *)
(* deleted in the meantime fails and its transition is lost.               *)
RunJob(job) ==
    /\ BagIn(job, queue)
    /\ queue' = queue (-) SetToBag({job})
    /\ IF profile[job.profile_id].exists
       THEN state_transitions' = Append(state_transitions,
                [profile |-> job.profile_id, from_state |-> job.from_state,
                 to_state |-> job.to_state,
                 backup_profile_id |-> job.profile_id,
                 metadata |-> job.metadata, created_at |-> now])
       ELSE UNCHANGED state_transitions
    /\ obs' = NoObs
    /\ UNCHANGED <<profile, user, now, calls, call, sources, next_source_id,
                   request>>

(* Time passes. *)
Tick ==
    /\ now < MaxTime
    /\ now' = now + 1
    /\ obs' = NoObs
    /\ UNCHANGED <<profile, user, state_transitions, queue, calls, call,
                   sources, next_source_id, request>>

(* Mutant of ProfileDeletion: the transitions are deleted with the         *)
(* profile.                                                                *)
ProfileDeletionCascade(p) ==
    /\ profile[p].exists
    /\ profile' = [profile EXCEPT ![p].exists = FALSE]
    /\ state_transitions' =
          SelectSeq(state_transitions, LAMBDA row : row.profile # p)
    /\ sources' = {s \in sources : s.profile # p}
    /\ obs' = NoObs
    /\ UNCHANGED <<queue, now, calls, call, next_source_id, request>>

(* Mutant of ProfileDeletion: the profile reference of every row is        *)
(* nulled.                                                                 *)
ProfileDeletionNullAll(p) ==
    /\ profile[p].exists
    /\ profile' = [profile EXCEPT ![p].exists = FALSE]
    /\ state_transitions' =
          [i \in DOMAIN state_transitions |->
              [state_transitions[i] EXCEPT !.profile = NULL]]
    /\ sources' = {s \in sources : s.profile # p}
    /\ obs' = NoObs
    /\ UNCHANGED <<queue, now, calls, call, next_source_id, request>>

(* What the deletion of a Profile row does to the rows that reference it:  *)
(* ProfileStateTransition.profile is SET_NULL, Source.profile is CASCADE.  *)
ProfileDeletion(p) ==
    /\ profile[p].exists
    /\ profile' = [profile EXCEPT ![p].exists = FALSE]
    /\ state_transitions' =
          [i \in DOMAIN state_transitions |->
              IF state_transitions[i].profile = p
              THEN [state_transitions[i] EXCEPT !.profile = NULL]
              ELSE state_transitions[i]]
    /\ sources' = {s \in sources : s.profile # p}
    /\ obs' = NoObs
    /\ UNCHANGED <<queue, now, calls, call, next_source_id, request>>

(* Deletion of a Profile row; its User stays. *)
DeleteProfile(p) == ProfileDeletion(p) /\ UNCHANGED user

(* Deletion of a User row: Profile.user is CASCADE, so the user's Profile, *)
(* when it still exists, is deleted with it.                               *)
DeleteUser(p) ==
    /\ user[p].exists
    /\ user' = [user EXCEPT ![p].exists = FALSE]
    /\ IF profile[p].exists
       THEN ProfileDeletion(p)
       ELSE /\ obs' = NoObs
            /\ UNCHANGED <<profile, state_transitions, queue, now, calls,
                           call, sources, next_source_id, request>>

(* ---------------------------------------------------------------------- *)
(* SourceUpdateView.get_object:                                            *)
(*     Source.objects.get_or_create(profile=self.request.user.profile).    *)
(* The argument is a query for the Profile of the request's user;          *)
(* get_or_create is a SELECT and, when it finds no row, a later INSERT.    *)
(* ---------------------------------------------------------------------- *)
SourcesOf(p) == {s \in sources : s.profile = p}

(* self.request.user.profile, for the user whose profile has id p: the     *)
(* query raises RelatedObjectDoesNotExist when the Profile row is gone.    *)
GetObjectProfile(r, p) ==
    /\ request[r].pc = "idle"
    /\ IF profile[p].exists
       THEN /\ request' = [request EXCEPT ![r] = [pc |-> "get",
                                                   profile |-> p]]
            /\ obs' = NoObs
       ELSE /\ UNCHANGED request
            /\ obs' = [NoObs EXCEPT !.op = "get_object", !.profile = p,
                          !.error = "Profile.RelatedObjectDoesNotExist"]
    /\ UNCHANGED <<profile, user, state_transitions, queue, now, calls, call,
                   sources, next_source_id>>

(* The SELECT of get_or_create: no row leads to the INSERT, one row is     *)
(* returned, several rows raise MultipleObjectsReturned.                   *)
GetObjectGet(r) ==
    /\ request[r].pc = "get"
    /\ LET p == request[r].profile IN
        IF SourcesOf(p) = {}
        THEN /\ request' = [request EXCEPT ![r].pc = "create"]
             /\ obs' = NoObs
        ELSE /\ request' = [request EXCEPT ![r] = [pc |-> "idle",
                                                    profile |-> NULL]]
             /\ IF Cardinality(SourcesOf(p)) = 1
                THEN \E s \in SourcesOf(p) :
                        obs' = [NoObs EXCEPT !.op = "get_object",
                                             !.profile = p, !.source = s.id]
                ELSE obs' = [NoObs EXCEPT !.op = "get_object", !.profile = p,
                                          !.error = "MultipleObjectsReturned"]
    /\ UNCHANGED <<profile, user, state_transitions, queue, now, calls, call,
                   sources, next_source_id>>

(* The INSERT of get_or_create, after a SELECT that found nothing.  The    *)
(* row references the profile: when the Profile row has been deleted in    *)
(* the meantime the INSERT fails, the SELECT that get_or_create then       *)
(* repeats finds nothing, and IntegrityError is raised.                    *)
GetObjectCreate(r) ==
    /\ request[r].pc = "create"
    /\ LET p == request[r].profile IN
        IF profile[p].exists
        THEN /\ sources' = sources \cup {[id |-> next_source_id, profile |-> p]}
             /\ next_source_id' = next_source_id + 1
             /\ obs' = [NoObs EXCEPT !.op = "get_object", !.profile = p,
                                     !.source = next_source_id, !.flag = TRUE]
        ELSE /\ UNCHANGED <<sources, next_source_id>>
             /\ obs' = [NoObs EXCEPT !.op = "get_object", !.profile = p,
                                     !.error = "IntegrityError"]
    /\ request' = [request EXCEPT ![r] = [pc |-> "idle", profile |-> NULL]]
    /\ UNCHANGED <<profile, user, state_transitions, queue, now, calls,
                   call>>

(* The transition recorder: track_state_change calls, jobs, the clock and  *)
(* deletions of profiles and users.                                        *)
NextRecorder ==
    \/ \E c \in Callers, p \in Profiles, to_state \in ProfileStates,
          m \in MetadataValues : TrackStateChange(c, p, to_state, m)
    \/ \E c \in Callers : CurrentStateLatest(c)
    \/ \E c \in Callers, broker_up \in BOOLEAN : AsyncTask(c, broker_up)
    \/ \E job \in Jobs : RunJob(job)
    \/ Tick
    \/ \E p \in Profiles : DeleteProfile(p)
    \/ \E p \in Profiles : DeleteUser(p)

SpecRecorder == Init /\ [][NextRecorder]_vars

(* The recorder together with reads of the two properties. *)
Next ==
    \/ NextRecorder
    \/ \E c \in Readers, p \in Profiles : ReadCurrentState(c, p)
    \/ \E c \in Readers, p \in Profiles, is_superuser \in BOOLEAN,
          user_cached \in BOOLEAN :
          ReadHasActiveSubscription(c, p, is_superuser, user_cached)
    \/ \E c \in Readers : HasActiveSubscriptionUser(c)

Spec == Init /\ [][Next]_vars

(* The Source of a profile: concurrent get_object requests and deletions. *)
NextSource ==
    \/ \E r \in Requests, p \in Profiles : GetObjectProfile(r, p)
    \/ \E r \in Requests : GetObjectGet(r)
    \/ \E r \in Requests : GetObjectCreate(r)
    \/ \E p \in Profiles : DeleteProfile(p)
    \/ \E p \in Profiles : DeleteUser(p)

SpecSource == Init /\ [][NextSource]_vars

(* The task queue is fair: a job in flight is eventually run by a worker. *)
FairSpec == SpecRecorder /\ WF_vars(\E job \in Jobs : RunJob(job))

(* ---------------------------------------------------------------------- *)
(* Strictly sequential recording: a call for a profile is made only when   *)
(* no job of that profile is in flight and no other call for it is in      *)
(* progress, and a job's row gets a created_at later than every earlier    *)
(* row of the profile.                                                     *)
(* ---------------------------------------------------------------------- *)
RowsOf(p) ==
    {i \in DOMAIN state_transitions :
        state_transitions[i].backup_profile_id = p}

NoJobInFlight(p) == \A job \in BagToSet(queue) : job.profile_id # p

NoCallInProgress(p) ==
    \A c \in Callers :
        ~(call[c].op = "track_state_change" /\ call[c].profile = p)

FreshTimestamp(p) ==
    \A i \in RowsOf(p) : state_transitions[i].created_at < now

SeqTrackStateChange(c, p, to_state, metadata) ==
    /\ NoJobInFlight(p)
    /\ NoCallInProgress(p)
    /\ TrackStateChange(c, p, to_state, metadata)

SeqRunJob(job) == FreshTimestamp(job.profile_id) /\ RunJob(job)

NextSequential ==
    \/ \E c \in Callers, p \in Profiles, to_state \in ProfileStates,
          m \in MetadataValues : SeqTrackStateChange(c, p, to_state, m)
    \/ \E c \in Callers : CurrentStateLatest(c)
    \/ \E c \in Callers, broker_up \in BOOLEAN : AsyncTask(c, broker_up)
    \/ \E job \in Jobs : SeqRunJob(job)
    \/ Tick
    \/ \E p \in Profiles : DeleteProfile(p)
    \/ \E p \in Profiles : DeleteUser(p)

SpecSequential == Init /\ [][NextSequential]_vars

(* ====================================================================== *)
(* Properties.                                                             *)
(* ====================================================================== *)

(* Row i has the greatest created_at among the rows in the set rows. *)
IsNewestIn(i, rows) ==
    \A j \in rows :
        state_transitions[j].created_at <= state_transitions[i].created_at

(* The rows that reference profile p, as the log holds them. *)
Referencing(p) ==
    {i \in DOMAIN state_transitions : state_transitions[i].profile = p}

(* C1: a read of current_state returns, without an error, STRANGER when    *)
(* the profile has no transitions, and otherwise the to_state of a         *)
(* transition of the profile that no other transition of the profile       *)
(* exceeds in created_at.                                                  *)
C1_CurrentStateIsLatestToState ==
    obs.op = "current_state" =>
        /\ obs.error = "-"
        /\ IF Referencing(obs.profile) = {}
           THEN obs.state = STRANGER
           ELSE \E i \in Referencing(obs.profile) :
                   /\ IsNewestIn(i, Referencing(obs.profile))
                   /\ obs.state = state_transitions[i].to_state

(* C2: a read of has_active_subscription yields a truth value, which is    *)
(* true exactly when the current state the property read is SUBSCRIBED or  *)
(* CANCELLED or the user is a superuser.                                    *)
C2_ActiveIffSubscribedCancelledOrSuperuser ==
    obs.op = "has_active_subscription" =>
        /\ obs.error = "-"
        /\ obs.flag <=> \/ obs.state \in {SUBSCRIBED, CANCELLED}
                        \/ obs.is_superuser

(* A job that a call track_state_change(p, SUBSCRIBED) made while the      *)
(* current state of p was STRANGER is in flight.                           *)
SubscribeJobInFlight(p, m) ==
    BagIn([profile_id |-> p, from_state |-> STRANGER,
           to_state |-> SUBSCRIBED, metadata |-> m], queue)

SubscribeRowRecorded(p) ==
    \E i \in Referencing(p) :
        /\ state_transitions[i].from_state = STRANGER
        /\ state_transitions[i].to_state = SUBSCRIBED

(* C3 as stated: once the job is in flight, eventually the log holds a     *)
(* STRANGER -> SUBSCRIBED transition of p and current_state(p) can be      *)
(* SUBSCRIBED.                                                             *)
C3_EventuallyRecorded ==
    \A p \in Profiles, m \in MetadataValues :
        SubscribeJobInFlight(p, m)
            ~> (SubscribeRowRecorded(p) /\ SUBSCRIBED \in current_state(p))

(* C3 amended: once the job is in flight, eventually either the profile    *)
(* has been deleted, or the log holds a STRANGER -> SUBSCRIBED transition  *)
(* of p and SUBSCRIBED is the to_state of a newest transition of p.        *)
C3_EventuallyRecordedUnlessDeleted ==
    \A p \in Profiles, m \in MetadataValues :
        SubscribeJobInFlight(p, m)
            ~> \/ ~profile[p].exists
               \/ /\ SubscribeRowRecorded(p)
                  /\ SUBSCRIBED \in current_state(p)

(* C3 witness: the job has run; the profile exists, its only transition is *)
(* STRANGER -> SUBSCRIBED and its current state is SUBSCRIBED.             *)
C3_Witness ==
    \E p \in Profiles :
        /\ profile[p].exists
        /\ Cardinality(Referencing(p)) = 1
        /\ SubscribeRowRecorded(p)
        /\ current_state(p) = {SUBSCRIBED}
        /\ queue = EmptyBag

(* C4: a track_state_change call never fails: the step in which it ends   *)
(* raises nothing, leaves the transition log unchanged and adds exactly    *)
(* one job, carrying the profile id, from_state, to_state and metadata of  *)
(* the call, to the queue.                                                 *)
C4_TrackNeverFailsAndOnlyEnqueues ==
    [][ obs'.op = "track_state_change" =>
            /\ obs'.error = "-"
            /\ state_transitions' = state_transitions
            /\ \E c \in Callers :
                /\ call[c].pc = "async_task"
                /\ queue' = queue (+) SetToBag({[
                       profile_id |-> call[c].profile,
                       from_state |-> call[c].from_state,
                       to_state |-> call[c].to_state,
                       metadata |-> call[c].metadata]})
      ]_vars

(* C5: a step that deletes a profile keeps every transition row; the rows  *)
(* of the deleted profile get a null profile reference and keep            *)
(* backup_profile_id equal to the deleted profile's id.                    *)
C5_DeleteKeepsTransitions ==
    [][ \A p \in Profiles :
          profile[p].exists /\ ~profile'[p].exists =>
            /\ Len(state_transitions') = Len(state_transitions)
            /\ \A i \in DOMAIN state_transitions :
                state_transitions[i].profile = p =>
                    /\ state_transitions'[i].profile = NULL
                    /\ state_transitions'[i].backup_profile_id = p
      ]_vars

(* C5 witness: a deleted profile with two orphaned transitions. *)
C5_Witness ==
    \E p \in Profiles :
        /\ ~profile[p].exists
        /\ Cardinality(RowsOf(p)) = 2
        /\ \A i \in RowsOf(p) : state_transitions[i].profile = NULL

(* C7: the from_state a call has read, a job carries or a recorded         *)
(* transition holds is a value read before the write: STRANGER or the      *)
(* to_state of a transition of the same profile inserted earlier.          *)
C7_FromStateIsEarlierRead ==
    /\ \A i \in DOMAIN state_transitions :
        \/ state_transitions[i].from_state = STRANGER
        \/ \E j \in 1..(i - 1) :
            /\ state_transitions[j].backup_profile_id
                   = state_transitions[i].backup_profile_id
            /\ state_transitions[j].to_state = state_transitions[i].from_state
    /\ \A job \in BagToSet(queue) :
        \/ job.from_state = STRANGER
        \/ \E j \in RowsOf(job.profile_id) :
            state_transitions[j].to_state = job.from_state
    /\ \A c \in Callers :
        call[c].pc = "async_task" =>
            \/ call[c].from_state = STRANGER
            \/ \E j \in RowsOf(call[c].profile) :
                state_transitions[j].to_state = call[c].from_state

(* C7 witness: two transitions of an existing profile, created at          *)
(* t1 < t2, where the later one's from_state is not the earlier one's      *)
(* to_state.                                                               *)
C7_Witness ==
    \E p \in Profiles :
        /\ profile[p].exists
        /\ \E i, j \in Referencing(p) :
            /\ Referencing(p) = {i, j}
            /\ state_transitions[i].created_at
                   < state_transitions[j].created_at
            /\ state_transitions[j].from_state
                   # state_transitions[i].to_state

(* C8: in every step, the rows already in the log stay, in place, with     *)
(* the same from_state, to_state, backup_profile_id, metadata and          *)
(* created_at; a row's profile reference changes only to null and only in  *)
(* a step that deletes the profile it referenced.                          *)
C8_LogIsAppendOnly ==
    [][ /\ Len(state_transitions') >= Len(state_transitions)
        /\ \A i \in DOMAIN state_transitions :
            /\ state_transitions'[i].from_state
                   = state_transitions[i].from_state
            /\ state_transitions'[i].to_state = state_transitions[i].to_state
            /\ state_transitions'[i].backup_profile_id
                   = state_transitions[i].backup_profile_id
            /\ state_transitions'[i].metadata = state_transitions[i].metadata
            /\ state_transitions'[i].created_at
                   = state_transitions[i].created_at
            /\ state_transitions'[i].profile # state_transitions[i].profile =>
                /\ state_transitions'[i].profile = NULL
                /\ profile[state_transitions[i].profile].exists
                /\ ~profile'[state_transitions[i].profile].exists
      ]_vars

(* C8 witness: one profile deleted, the other not; each has a transition,  *)
(* the first orphaned and the second still referencing its profile.        *)
C8_Witness ==
    \E i, j \in DOMAIN state_transitions :
        /\ state_transitions[i].profile = NULL
        /\ ~profile[state_transitions[i].backup_profile_id].exists
        /\ state_transitions[j].profile # NULL
        /\ profile[state_transitions[j].profile].exists

(* C9: a profile never has more than one Source. *)
C9_OneSourcePerProfile ==
    \A p \in Profiles : Cardinality(SourcesOf(p)) <= 1

(* The row of p created immediately before row i, by created_at. *)
Predecessors(p, i) ==
    {j \in RowsOf(p) :
        state_transitions[j].created_at < state_transitions[i].created_at}

(* C10: when recording is strictly sequential, the transitions of a        *)
(* profile form a chain: the first has from_state STRANGER, every later    *)
(* one has the to_state of the one immediately before it as from_state,    *)
(* and a transition that references a profile has that profile's id as     *)
(* backup_profile_id.                                                      *)
C10_SequentialChain ==
    \A p \in Profiles :
        \A i \in RowsOf(p) :
            /\ state_transitions[i].profile \in {p, NULL}
            /\ IF Predecessors(p, i) = {}
               THEN state_transitions[i].from_state = STRANGER
               ELSE \E j \in Predecessors(p, i) :
                       /\ IsNewestIn(j, Predecessors(p, i))
                       /\ state_transitions[i].from_state
                              = state_transitions[j].to_state

(* C10 witness: a chain of two transitions of one profile, the second      *)
(* starting from a state other than STRANGER.                              *)
C10_Witness ==
    \E p \in Profiles :
        \E i, j \in RowsOf(p) :
            /\ state_transitions[i].created_at
                   < state_transitions[j].created_at
            /\ state_transitions[j].from_state = state_transitions[i].to_state
            /\ state_transitions[j].from_state # STRANGER

====
